---- MODULE Spec2Model ----
(***************************************************************************)
(* Model of internal/tracegen: Run (config.go) coordinating the workers    *)
(* that emit synthetic three-span traces.                                  *)
(*                                                                         *)
(* Run is the coordinator process; every spawned goroutine is a worker     *)
(* process.  The worker body (simulateTraces) is not part of config.go; it *)
(* is modelled from section 4.3 of the specification.                      *)
(*                                                                         *)
(* Time is modelled by clocks that advance together in Tick: the           *)
(* coordinator's sleep clock (timer) and one clock per running worker      *)
(* (age).  A clock stops at the duration it is compared with.  The pause   *)
(* between two traces of a worker takes an arbitrary amount of time.       *)
(*                                                                         *)
(* Spec is one call of Run.  ConcSpec is two calls of Run made             *)
(* concurrently with separate configurations: the second call's locals     *)
(* are the fields of peer, and the workers of both calls share the tracer. *)
(***************************************************************************)
EXTENDS Integers, Sequences, FiniteSets, TLC

\* ---- bounds of the model ----
MaxWorkers == 2
MaxTraces == 2
MaxDuration == 2
\* In duration mode nothing reads the iteration counter; it stops counting here.
MaxIter == 2

VARIABLES
    cfg,        \* *c, the configuration Run works on
    cfg0,       \* the configuration as it was when Run was called
    pc,         \* position of the coordinator inside Run
    ret,        \* what Run returned: "none" (not yet), "error", "nil"
    i,          \* loop variable of the spawn loop
    wg,         \* counter of the sync.WaitGroup
    running,    \* the uint32 stop flag: 1 = running, 0 = stop
    timer,      \* time spent in time.Sleep so far; -1 = Run has not slept
    stores,     \* number of atomic stores made to running
    workers,    \* the spawned workers, worker id k at index k+1
    inflight,   \* tracer: spans of the trace each worker is building
    accepted,   \* tracer: number of complete traces accepted per worker
    traces,     \* tracer: the distinct complete traces accepted so far
    peer        \* a second call of Run made concurrently, with its locals

vars == <<cfg, cfg0, pc, ret, i, wg, running, timer, stores, workers,
          inflight, accepted, traces, peer>>

WorkerIds == 0..(MaxWorkers - 1)

Min(a, b) == IF a < b THEN a ELSE b
Max(a, b) == IF a > b THEN a ELSE b

\* type Config struct
Config ==
    [Workers : (-1)..MaxWorkers,
     Traces : (-1)..MaxTraces,
     Marshal : {FALSE},
     Debug : BOOLEAN,
     Firehose : BOOLEAN,
     Pause : {1},
     Duration : (-1)..MaxDuration,
     Service : {"tracegen"},
     TraceExporter : {"jaeger"}]

\* the values the flags give a configuration by default
DefaultConfig ==
    [Workers |-> 1,
     Traces |-> 1,
     Marshal |-> FALSE,
     Debug |-> FALSE,
     Firehose |-> FALSE,
     Pause |-> 1,
     Duration |-> 0,
     Service |-> "tracegen",
     TraceExporter |-> "jaeger"]

\* no second call of Run is made
NoPeer ==
    [cfg |-> DefaultConfig, pc |-> "none", ret |-> "none", i |-> 0,
     wg |-> 0, running |-> 1, timer |-> -1, stores |-> 0]

Init ==
    /\ cfg \in Config
    /\ cfg0 = cfg
    /\ pc = "call"
    /\ ret = "none"
    /\ i = 0
    /\ wg = 0
    /\ running = 1
    /\ timer = -1
    /\ stores = 0
    /\ workers = <<>>
    /\ inflight = [k \in WorkerIds |-> <<>>]
    /\ accepted = [k \in WorkerIds |-> 0]
    /\ traces = {}
    /\ peer = NoPeer

\* ---------------------------------------------------------------------
\* The coordinator: Run
\* ---------------------------------------------------------------------

\* Validate with the count test "c.Traces < 0"
Validate_StrictCount ==
    /\ pc = "call"
    /\ IF cfg.Duration > 0
         THEN /\ cfg' = [cfg EXCEPT !.Traces = 0]
              /\ pc' = "loop"
              /\ ret' = ret
         ELSE IF cfg.Traces < 0
                THEN /\ cfg' = cfg
                     /\ pc' = "returned"
                     /\ ret' = "error"
                ELSE /\ cfg' = cfg
                     /\ pc' = "loop"
                     /\ ret' = ret
    /\ IF pc' = "loop"
         THEN wg' = 0 /\ running' = 1 /\ i' = 0
         ELSE UNCHANGED <<wg, running, i>>
    /\ UNCHANGED <<cfg0, timer, stores, workers, inflight, accepted, traces>>
    /\ UNCHANGED peer

\* Validate without "c.Traces = 0"
Validate_NoNormalize ==
    /\ pc = "call"
    /\ IF cfg.Duration > 0
         THEN /\ cfg' = cfg
              /\ pc' = "loop"
              /\ ret' = ret
         ELSE IF cfg.Traces <= 0
                THEN /\ cfg' = cfg
                     /\ pc' = "returned"
                     /\ ret' = "error"
                ELSE /\ cfg' = cfg
                     /\ pc' = "loop"
                     /\ ret' = ret
    /\ IF pc' = "loop"
         THEN wg' = 0 /\ running' = 1 /\ i' = 0
         ELSE UNCHANGED <<wg, running, i>>
    /\ UNCHANGED <<cfg0, timer, stores, workers, inflight, accepted, traces>>
    /\ UNCHANGED peer

\* Validate with "c.Traces = 0" on the error path too
Validate_ZeroOnError ==
    /\ pc = "call"
    /\ IF cfg.Duration > 0
         THEN /\ cfg' = [cfg EXCEPT !.Traces = 0]
              /\ pc' = "loop"
              /\ ret' = ret
         ELSE IF cfg.Traces <= 0
                THEN /\ cfg' = [cfg EXCEPT !.Traces = 0]
                     /\ pc' = "returned"
                     /\ ret' = "error"
                ELSE /\ cfg' = cfg
                     /\ pc' = "loop"
                     /\ ret' = ret
    /\ IF pc' = "loop"
         THEN wg' = 0 /\ running' = 1 /\ i' = 0
         ELSE UNCHANGED <<wg, running, i>>
    /\ UNCHANGED <<cfg0, timer, stores, workers, inflight, accepted, traces>>
    /\ UNCHANGED peer

\* Validate testing the count before the duration
Validate_CountFirst ==
    /\ pc = "call"
    /\ IF cfg.Traces <= 0
         THEN /\ cfg' = cfg
              /\ pc' = "returned"
              /\ ret' = "error"
         ELSE IF cfg.Duration > 0
                THEN /\ cfg' = [cfg EXCEPT !.Traces = 0]
                     /\ pc' = "loop"
                     /\ ret' = ret
                ELSE /\ cfg' = cfg
                     /\ pc' = "loop"
                     /\ ret' = ret
    /\ IF pc' = "loop"
         THEN wg' = 0 /\ running' = 1 /\ i' = 0
         ELSE UNCHANGED <<wg, running, i>>
    /\ UNCHANGED <<cfg0, timer, stores, workers, inflight, accepted, traces>>
    /\ UNCHANGED peer

\* if c.Duration > 0 { c.Traces = 0 } else if c.Traces <= 0 { return error }
\* wg := sync.WaitGroup{}; var running uint32 = 1; i := 0
Validate ==
    /\ pc = "call"
    /\ IF cfg.Duration > 0
         THEN /\ cfg' = [cfg EXCEPT !.Traces = 0]
              /\ pc' = "loop"
              /\ ret' = ret
         ELSE IF cfg.Traces <= 0
                THEN /\ cfg' = cfg
                     /\ pc' = "returned"
                     /\ ret' = "error"
                ELSE /\ cfg' = cfg
                     /\ pc' = "loop"
                     /\ ret' = ret
    /\ IF pc' = "loop"
         THEN wg' = 0 /\ running' = 1 /\ i' = 0
         ELSE UNCHANGED <<wg, running, i>>
    /\ UNCHANGED <<cfg0, timer, stores, workers, inflight, accepted, traces>>
    /\ UNCHANGED peer

\* WgAdd with the loop test "i <= c.Workers"
WgAdd_OffByOne ==
    /\ pc = "loop"
    /\ i <= cfg.Workers
    /\ wg' = wg + 1
    /\ pc' = "go"
    /\ UNCHANGED <<cfg, cfg0, ret, i, running, timer, stores, workers,
                   inflight, accepted, traces>>
    /\ UNCHANGED peer

\* WgAdd without wg.Add(1)
WgAdd_Skip ==
    /\ pc = "loop"
    /\ i < cfg.Workers
    /\ wg' = wg
    /\ pc' = "go"
    /\ UNCHANGED <<cfg, cfg0, ret, i, running, timer, stores, workers,
                   inflight, accepted, traces>>
    /\ UNCHANGED peer

\* WgAdd with wg.Add(2)
WgAdd_Two ==
    /\ pc = "loop"
    /\ i < cfg.Workers
    /\ wg' = wg + 2
    /\ pc' = "go"
    /\ UNCHANGED <<cfg, cfg0, ret, i, running, timer, stores, workers,
                   inflight, accepted, traces>>
    /\ UNCHANGED peer

\* for ...; i < c.Workers; ... { wg.Add(1)
WgAdd ==
    /\ pc = "loop"
    /\ i < cfg.Workers
    /\ wg' = wg + 1
    /\ pc' = "go"
    /\ UNCHANGED <<cfg, cfg0, ret, i, running, timer, stores, workers,
                   inflight, accepted, traces>>
    /\ UNCHANGED peer

\* the call of Run that the variables above describe
ThisRun == "run"

\* the tracer passed to Run
TracerArg == "tracer"

\* AddrRunning with one flag for the whole process
AddrRunning_Global(r) == <<"running", ThisRun>>

\* &running and &wg: the locals of the call r of Run
AddrRunning(r) == <<"running", r>>
AddrWg(r) == <<"wg", r>>

\* the concurrent second call of Run
PeerRun == "peer"

\* NewWorker with "id: 0"
NewWorker_SameId(id) ==
    [id |-> 0,
     tracer |-> TracerArg,
     traces |-> cfg.Traces,
     marshal |-> cfg.Marshal,
     debug |-> cfg.Debug,
     firehose |-> cfg.Firehose,
     pause |-> cfg.Pause,
     duration |-> cfg.Duration,
     running |-> AddrRunning(ThisRun),
     wg |-> AddrWg(ThisRun),
     logger |-> id,
     run |-> ThisRun,
     pc |-> "ready",
     n |-> 0,
     age |-> -1,
     early |-> FALSE]

\* NewWorker with "traces: c.Workers"
NewWorker_WrongCount(id) ==
    [id |-> id,
     tracer |-> TracerArg,
     traces |-> cfg.Workers,
     marshal |-> cfg.Marshal,
     debug |-> cfg.Debug,
     firehose |-> cfg.Firehose,
     pause |-> cfg.Pause,
     duration |-> cfg.Duration,
     running |-> AddrRunning(ThisRun),
     wg |-> AddrWg(ThisRun),
     logger |-> id,
     run |-> ThisRun,
     pc |-> "ready",
     n |-> 0,
     age |-> -1,
     early |-> FALSE]

\* NewWorker with "firehose: c.Debug"
NewWorker_FirehoseFromDebug(id) ==
    [id |-> id,
     tracer |-> TracerArg,
     traces |-> cfg.Traces,
     marshal |-> cfg.Marshal,
     debug |-> cfg.Debug,
     firehose |-> cfg.Debug,
     pause |-> cfg.Pause,
     duration |-> cfg.Duration,
     running |-> AddrRunning(ThisRun),
     wg |-> AddrWg(ThisRun),
     logger |-> id,
     run |-> ThisRun,
     pc |-> "ready",
     n |-> 0,
     age |-> -1,
     early |-> FALSE]

\* w := worker{...}, with the state of its goroutine:
\*   run    the call of Run that spawned it
\*   pc     position of the worker ("ready": spawned, not yet scheduled)
\*   n      its iteration counter
\*   age    time since it started executing (-1: not started)
\*   early  whether it started executing before Run began to sleep
NewWorker(id) ==
    [id |-> id,
     tracer |-> TracerArg,
     traces |-> cfg.Traces,
     marshal |-> cfg.Marshal,
     debug |-> cfg.Debug,
     firehose |-> cfg.Firehose,
     pause |-> cfg.Pause,
     duration |-> cfg.Duration,
     running |-> AddrRunning(ThisRun),
     wg |-> AddrWg(ThisRun),
     logger |-> id,
     run |-> ThisRun,
     pc |-> "ready",
     n |-> 0,
     age |-> -1,
     early |-> FALSE]

\* w := worker{...}; go w.simulateTraces(); i++
GoWorker ==
    /\ pc = "go"
    /\ workers' = Append(workers, NewWorker(i))
    /\ i' = i + 1
    /\ pc' = "loop"
    /\ UNCHANGED <<cfg, cfg0, ret, wg, running, timer, stores,
                   inflight, accepted, traces>>
    /\ UNCHANGED peer

\* LoopExit leaving the spawn loop whatever i is
LoopExit_InsideLoop ==
    /\ pc = "loop"
    /\ IF cfg.Duration > 0
         THEN /\ pc' = "sleeping"
              /\ timer' = 0
         ELSE /\ pc' = "wait"
              /\ timer' = timer
    /\ UNCHANGED <<cfg, cfg0, ret, i, wg, running, stores, workers,
                   inflight, accepted, traces>>
    /\ UNCHANGED peer

\* LoopExit without the test "if c.Duration > 0"
LoopExit_AlwaysStop ==
    /\ pc = "loop"
    /\ ~(i < cfg.Workers)
    /\ pc' = "sleeping"
    /\ timer' = 0
    /\ UNCHANGED <<cfg, cfg0, ret, i, wg, running, stores, workers,
                   inflight, accepted, traces>>
    /\ UNCHANGED peer

\* LoopExit storing the flag without sleeping first
LoopExit_NoSleep ==
    /\ pc = "loop"
    /\ ~(i < cfg.Workers)
    /\ IF cfg.Duration > 0
         THEN /\ pc' = "store"
              /\ timer' = 0
         ELSE /\ pc' = "wait"
              /\ timer' = timer
    /\ UNCHANGED <<cfg, cfg0, ret, i, wg, running, stores, workers,
                   inflight, accepted, traces>>
    /\ UNCHANGED peer

\* the spawn loop ends; if c.Duration > 0 { time.Sleep(...) begins
LoopExit ==
    /\ pc = "loop"
    /\ ~(i < cfg.Workers)
    /\ IF cfg.Duration > 0
         THEN /\ pc' = "sleeping"
              /\ timer' = 0
         ELSE /\ pc' = "wait"
              /\ timer' = timer
    /\ UNCHANGED <<cfg, cfg0, ret, i, wg, running, stores, workers,
                   inflight, accepted, traces>>
    /\ UNCHANGED peer

\* SleepEnd returning one unit of time early
SleepEnd_Early ==
    /\ pc = "sleeping"
    /\ timer >= cfg.Duration - 1
    /\ pc' = "store"
    /\ UNCHANGED <<cfg, cfg0, ret, i, wg, running, timer, stores, workers,
                   inflight, accepted, traces>>
    /\ UNCHANGED peer

\* time.Sleep(c.Duration) returns: at least c.Duration has passed
SleepEnd ==
    /\ pc = "sleeping"
    /\ timer >= cfg.Duration
    /\ pc' = "store"
    /\ UNCHANGED <<cfg, cfg0, ret, i, wg, running, timer, stores, workers,
                   inflight, accepted, traces>>
    /\ UNCHANGED peer

\* StoreRunning storing 1
StoreRunning_One ==
    /\ pc = "store"
    /\ running' = 1
    /\ stores' = stores + 1
    /\ pc' = "wait"
    /\ UNCHANGED <<cfg, cfg0, ret, i, wg, timer, workers,
                   inflight, accepted, traces>>
    /\ UNCHANGED peer

\* atomic.StoreUint32(&running, 0)
StoreRunning ==
    /\ pc = "store"
    /\ running' = 0
    /\ stores' = stores + 1
    /\ pc' = "wait"
    /\ UNCHANGED <<cfg, cfg0, ret, i, wg, timer, workers,
                   inflight, accepted, traces>>
    /\ UNCHANGED peer

\* Wait without wg.Wait()
Wait_NoJoin ==
    /\ pc = "wait"
    /\ pc' = "returned"
    /\ ret' = "nil"
    /\ UNCHANGED <<cfg, cfg0, i, wg, running, timer, stores, workers,
                   inflight, accepted, traces>>
    /\ UNCHANGED peer

\* wg.Wait(); return nil
Wait ==
    /\ pc = "wait"
    /\ wg = 0
    /\ pc' = "returned"
    /\ ret' = "nil"
    /\ UNCHANGED <<cfg, cfg0, i, wg, running, timer, stores, workers,
                   inflight, accepted, traces>>
    /\ UNCHANGED peer

\* ---------------------------------------------------------------------
\* The workers: simulateTraces (specification, section 4.3)
\* ---------------------------------------------------------------------

Spawned == 1..Len(workers)

\* a span handed to the tracer
Span(w, name, parent) ==
    [name |-> name, parent |-> parent,
     debug |-> w.debug, firehose |-> w.firehose]

\* the flag a worker's reference points to: each call of Run has its own
LoadRunning(a) ==
    IF a = AddrRunning(ThisRun) THEN running ELSE peer.running

\* the wait-group counter a worker's reference points to
LoadWg(a) ==
    IF a = AddrWg(ThisRun) THEN wg ELSE peer.wg

\* the sleep timer of the call that spawned a worker
TimerOf(r) ==
    IF r = ThisRun THEN timer ELSE peer.timer

\* the tracer keeps the spans of each goroutine apart
Slot(w) ==
    IF w.run = ThisRun THEN w.id ELSE MaxWorkers + w.id

Slots == 0..(2 * MaxWorkers - 1)

\* the loop condition, evaluated before each iteration
LoopCond(w) ==
    IF w.traces = 0
      THEN LoadRunning(w.running) = 1
      ELSE w.n < w.traces

\* a count of iterations after one more iteration of worker w
NextCount(c, w) ==
    IF w.traces = 0 THEN Min(c + 1, MaxIter) ELSE c + 1

\* the goroutine is scheduled for the first time
WorkerStart(k) ==
    /\ workers[k].pc = "ready"
    /\ workers' = [workers EXCEPT ![k].pc = "check",
                                  ![k].age = 0,
                                  ![k].early = (TimerOf(workers[k].run) = -1)]
    /\ UNCHANGED <<cfg, cfg0, pc, ret, i, wg, running, timer, stores,
                   inflight, accepted, traces>>
    /\ UNCHANGED peer

\* the loop condition holds: start the root span "lead" with its attributes
StartLead(k) ==
    LET w == workers[k] IN
    /\ w.pc = "check"
    /\ LoopCond(w)
    /\ inflight' = [inflight EXCEPT ![Slot(w)] = <<Span(w, "lead", "none")>>]
    /\ workers' = [workers EXCEPT ![k].pc = "lead"]
    /\ UNCHANGED <<cfg, cfg0, pc, ret, i, wg, running, timer, stores,
                   accepted, traces>>
    /\ UNCHANGED peer

\* start child "sub1" of the root, attach the attributes, close it
Sub1(k) ==
    LET w == workers[k] IN
    /\ w.pc = "lead"
    /\ inflight' = [inflight EXCEPT
                      ![Slot(w)] = Append(@, Span(w, "sub1", "lead"))]
    /\ workers' = [workers EXCEPT ![k].pc = "sub1"]
    /\ UNCHANGED <<cfg, cfg0, pc, ret, i, wg, running, timer, stores,
                   accepted, traces>>
    /\ UNCHANGED peer

\* start child "sub2" of the root, attach the attributes, close it
Sub2(k) ==
    LET w == workers[k] IN
    /\ w.pc = "sub1"
    /\ inflight' = [inflight EXCEPT
                      ![Slot(w)] = Append(@, Span(w, "sub2", "lead"))]
    /\ workers' = [workers EXCEPT ![k].pc = "sub2"]
    /\ UNCHANGED <<cfg, cfg0, pc, ret, i, wg, running, timer, stores,
                   accepted, traces>>
    /\ UNCHANGED peer

\* EndLead closing the root span while "sub2" has not been started
EndLead_Early(k) ==
    LET w == workers[k] IN
    /\ w.pc \in {"sub1", "sub2"}
    /\ traces' = traces \cup {inflight[Slot(w)]}
    /\ accepted' = [accepted EXCEPT ![Slot(w)] = NextCount(@, w)]
    /\ inflight' = [inflight EXCEPT ![Slot(w)] = <<>>]
    /\ workers' = [workers EXCEPT ![k].pc = "pause", ![k].n = NextCount(w.n, w)]
    /\ UNCHANGED <<cfg, cfg0, pc, ret, i, wg, running, timer, stores>>
    /\ UNCHANGED peer

\* close the root span: the tracer accepts the trace
EndLead(k) ==
    LET w == workers[k] IN
    /\ w.pc = "sub2"
    /\ traces' = traces \cup {inflight[Slot(w)]}
    /\ accepted' = [accepted EXCEPT ![Slot(w)] = NextCount(@, w)]
    /\ inflight' = [inflight EXCEPT ![Slot(w)] = <<>>]
    /\ workers' = [workers EXCEPT ![k].pc = "pause", ![k].n = NextCount(w.n, w)]
    /\ UNCHANGED <<cfg, cfg0, pc, ret, i, wg, running, timer, stores>>
    /\ UNCHANGED peer

\* the pause before the next iteration is over
Pause(k) ==
    /\ workers[k].pc = "pause"
    /\ workers' = [workers EXCEPT ![k].pc = "check"]
    /\ UNCHANGED <<cfg, cfg0, pc, ret, i, wg, running, timer, stores,
                   inflight, accepted, traces>>
    /\ UNCHANGED peer

\* the loop condition fails: the worker reports completion (wg.Done)
WorkerDone(k) ==
    LET w == workers[k] IN
    /\ w.pc = "check"
    /\ ~LoopCond(w)
    /\ IF w.wg = AddrWg(ThisRun)
         THEN wg' = wg - 1 /\ UNCHANGED peer
         ELSE peer' = [peer EXCEPT !.wg = @ - 1] /\ UNCHANGED wg
    /\ workers' = [workers EXCEPT ![k].pc = "done"]
    /\ UNCHANGED <<cfg, cfg0, pc, ret, i, running, timer, stores,
                   inflight, accepted, traces>>

\* ---------------------------------------------------------------------
\* Time
\* ---------------------------------------------------------------------

Alive(w) == w.pc \notin {"ready", "done"}

\* one unit of time passes for the sleeping coordinator and the live workers
Tick ==
    /\ \/ pc = "sleeping" /\ timer < cfg.Duration
       \/ peer.pc = "sleeping" /\ peer.timer < peer.cfg.Duration
       \/ \E k \in Spawned : Alive(workers[k])
                             /\ workers[k].age < workers[k].duration
    /\ timer' = IF pc = "sleeping" /\ timer < cfg.Duration
                  THEN timer + 1 ELSE timer
    /\ workers' = [k \in Spawned |->
                     IF Alive(workers[k]) /\ workers[k].age < workers[k].duration
                       THEN [workers[k] EXCEPT !.age = @ + 1]
                       ELSE workers[k]]
    /\ peer' = IF peer.pc = "sleeping" /\ peer.timer < peer.cfg.Duration
                 THEN [peer EXCEPT !.timer = @ + 1] ELSE peer
    /\ UNCHANGED <<cfg, cfg0, pc, ret, i, wg, running, stores,
                   inflight, accepted, traces>>

\* the steps of Run, for the fairness condition
Coordinator ==
    \/ Validate
    \/ WgAdd
    \/ GoWorker
    \/ LoopExit
    \/ SleepEnd
    \/ StoreRunning
    \/ Wait

\* the steps of worker k, for the fairness condition
Worker(k) ==
    \/ WorkerStart(k)
    \/ StartLead(k)
    \/ Sub1(k)
    \/ Sub2(k)
    \/ EndLead(k)
    \/ Pause(k)
    \/ WorkerDone(k)

Next ==
    \/ Validate
    \/ WgAdd
    \/ GoWorker
    \/ LoopExit
    \/ SleepEnd
    \/ StoreRunning
    \/ Wait
    \/ \E k \in Spawned : WorkerStart(k)
    \/ \E k \in Spawned : StartLead(k)
    \/ \E k \in Spawned : Sub1(k)
    \/ \E k \in Spawned : Sub2(k)
    \/ \E k \in Spawned : EndLead(k)
    \/ \E k \in Spawned : Pause(k)
    \/ \E k \in Spawned : WorkerDone(k)
    \/ Tick

Spec == Init /\ [][Next]_vars

\* The Go scheduler runs every runnable goroutine eventually and time passes.
Fairness ==
    /\ WF_vars(Coordinator)
    /\ WF_vars(Tick)
    /\ \A k \in 1..MaxWorkers : WF_vars(k \in Spawned /\ Worker(k))

FairSpec == Spec /\ Fairness

\* ---------------------------------------------------------------------
\* A second call of Run, made concurrently with its own configuration.
\* Its steps are the steps of Run above, on the locals of that call.
\* ---------------------------------------------------------------------

\* validation and normalisation, then the declaration of wg and running
PeerValidate ==
    /\ peer.pc = "call"
    /\ LET c == peer.cfg
           p == IF c.Duration > 0
                  THEN [peer EXCEPT !.cfg = [c EXCEPT !.Traces = 0],
                                    !.pc = "loop"]
                  ELSE IF c.Traces <= 0
                         THEN [peer EXCEPT !.pc = "returned",
                                           !.ret = "error"]
                         ELSE [peer EXCEPT !.pc = "loop"]
           sameWg == AddrWg(PeerRun) = AddrWg(ThisRun)
           sameFlag == AddrRunning(PeerRun) = AddrRunning(ThisRun)
       IN IF p.pc = "loop"
            THEN /\ peer' = [p EXCEPT !.i = 0,
                                      !.wg = IF sameWg THEN @ ELSE 0,
                                      !.running = IF sameFlag THEN @ ELSE 1]
                 /\ wg' = IF sameWg THEN 0 ELSE wg
                 /\ running' = IF sameFlag THEN 1 ELSE running
            ELSE /\ peer' = p
                 /\ UNCHANGED <<wg, running>>
    /\ UNCHANGED <<cfg, cfg0, pc, ret, i, timer, stores, workers,
                   inflight, accepted, traces>>

\* wg.Add(1) of the second call
PeerWgAdd ==
    /\ peer.pc = "loop"
    /\ peer.i < peer.cfg.Workers
    /\ IF AddrWg(PeerRun) = AddrWg(ThisRun)
         THEN /\ wg' = wg + 1
              /\ peer' = [peer EXCEPT !.pc = "go"]
         ELSE /\ wg' = wg
              /\ peer' = [peer EXCEPT !.pc = "go", !.wg = @ + 1]
    /\ UNCHANGED <<cfg, cfg0, pc, ret, i, running, timer, stores, workers,
                   inflight, accepted, traces>>

\* the worker literal of the second call
PeerNewWorker(id) ==
    [id |-> id,
     tracer |-> TracerArg,
     traces |-> peer.cfg.Traces,
     marshal |-> peer.cfg.Marshal,
     debug |-> peer.cfg.Debug,
     firehose |-> peer.cfg.Firehose,
     pause |-> peer.cfg.Pause,
     duration |-> peer.cfg.Duration,
     running |-> AddrRunning(PeerRun),
     wg |-> AddrWg(PeerRun),
     logger |-> id,
     run |-> PeerRun,
     pc |-> "ready",
     n |-> 0,
     age |-> -1,
     early |-> FALSE]

\* go w.simulateTraces() of the second call, and i++
PeerGoWorker ==
    /\ peer.pc = "go"
    /\ workers' = Append(workers, PeerNewWorker(peer.i))
    /\ peer' = [peer EXCEPT !.i = @ + 1, !.pc = "loop"]
    /\ UNCHANGED <<cfg, cfg0, pc, ret, i, wg, running, timer, stores,
                   inflight, accepted, traces>>

\* the spawn loop of the second call is over
PeerLoopExit ==
    /\ peer.pc = "loop"
    /\ ~(peer.i < peer.cfg.Workers)
    /\ peer' = IF peer.cfg.Duration > 0
                 THEN [peer EXCEPT !.pc = "sleeping", !.timer = 0]
                 ELSE [peer EXCEPT !.pc = "wait"]
    /\ UNCHANGED <<cfg, cfg0, pc, ret, i, wg, running, timer, stores,
                   workers, inflight, accepted, traces>>

\* time.Sleep of the second call returns
PeerSleepEnd ==
    /\ peer.pc = "sleeping"
    /\ peer.timer >= peer.cfg.Duration
    /\ peer' = [peer EXCEPT !.pc = "store"]
    /\ UNCHANGED <<cfg, cfg0, pc, ret, i, wg, running, timer, stores,
                   workers, inflight, accepted, traces>>

\* atomic.StoreUint32(&running, 0) of the second call
PeerStoreRunning ==
    /\ peer.pc = "store"
    /\ IF AddrRunning(PeerRun) = AddrRunning(ThisRun)
         THEN /\ running' = 0
              /\ peer' = [peer EXCEPT !.pc = "wait", !.stores = @ + 1]
         ELSE /\ running' = running
              /\ peer' = [peer EXCEPT !.pc = "wait", !.stores = @ + 1,
                                      !.running = 0]
    /\ UNCHANGED <<cfg, cfg0, pc, ret, i, wg, timer, stores, workers,
                   inflight, accepted, traces>>

\* wg.Wait() of the second call returns, and the call returns nil
PeerWait ==
    /\ peer.pc = "wait"
    /\ LoadWg(AddrWg(PeerRun)) = 0
    /\ peer' = [peer EXCEPT !.pc = "returned", !.ret = "nil"]
    /\ UNCHANGED <<cfg, cfg0, pc, ret, i, wg, running, timer, stores,
                   workers, inflight, accepted, traces>>

\* the configurations of the two concurrent calls
ConcConfig(debug) ==
    [Workers : {1},
     Traces : {0, 1},
     Marshal : {FALSE},
     Debug : {debug},
     Firehose : {FALSE},
     Pause : {1},
     Duration : {0, 1},
     Service : {"tracegen"},
     TraceExporter : {"jaeger"}]

\* two calls of Run are about to start, each with its own configuration
InitConc ==
    /\ cfg \in ConcConfig(FALSE)
    /\ cfg0 = cfg
    /\ pc = "call"
    /\ ret = "none"
    /\ i = 0
    /\ wg = 0
    /\ running = 1
    /\ timer = -1
    /\ stores = 0
    /\ workers = <<>>
    /\ inflight = [k \in Slots |-> <<>>]
    /\ accepted = [k \in Slots |-> 0]
    /\ traces = {}
    /\ \E c \in ConcConfig(TRUE) : peer = [NoPeer EXCEPT !.cfg = c, !.pc = "call"]

ConcNext ==
    \/ Validate
    \/ WgAdd
    \/ GoWorker
    \/ LoopExit
    \/ SleepEnd
    \/ StoreRunning
    \/ Wait
    \/ PeerValidate
    \/ PeerWgAdd
    \/ PeerGoWorker
    \/ PeerLoopExit
    \/ PeerSleepEnd
    \/ PeerStoreRunning
    \/ PeerWait
    \/ \E k \in Spawned : WorkerStart(k)
    \/ \E k \in Spawned : StartLead(k)
    \/ \E k \in Spawned : Sub1(k)
    \/ \E k \in Spawned : Sub2(k)
    \/ \E k \in Spawned : EndLead(k)
    \/ \E k \in Spawned : Pause(k)
    \/ \E k \in Spawned : WorkerDone(k)
    \/ Tick

ConcSpec == InitConc /\ [][ConcNext]_vars

\* ---------------------------------------------------------------------
\* Properties
\* ---------------------------------------------------------------------

RECURSIVE SumUpTo(_, _)
SumUpTo(f, k) == IF k < 0 THEN 0 ELSE f[k] + SumUpTo(f, k - 1)

\* number of traces the tracer accepted from all workers
TotalAccepted == SumUpTo(accepted, MaxWorkers - 1)

NothingEmitted ==
    /\ traces = {}
    /\ \A k \in WorkerIds : accepted[k] = 0 /\ inflight[k] = <<>>

\* a complete trace: root "lead" and its children "sub1" and "sub2"
ThreeSpans(t) ==
    /\ Len(t) = 3
    /\ Cardinality({j \in 1..Len(t) : t[j].parent = "none"}) = 1
    /\ Cardinality({j \in 1..Len(t) : t[j].parent # "none"}) = 2

\* C1: when Duration <= 0 and Traces <= 0, Run returns the error at its first
\* step: no worker is spawned, no trace is emitted, the coordinator never
\* sleeps and the configuration is left as it was.
C1_InvalidConfigNoEffect ==
    (cfg0.Duration <= 0 /\ cfg0.Traces <= 0) =>
        /\ pc \in {"call", "returned"}
        /\ pc = "returned" => ret = "error"
        /\ workers = <<>>
        /\ wg = 0
        /\ NothingEmitted
        /\ timer = -1
        /\ stores = 0
        /\ running = 1
        /\ cfg = cfg0

C1_Witness ==
    /\ pc = "returned"
    /\ ret = "error"
    /\ cfg0.Workers = MaxWorkers
    /\ cfg0.Traces = 0
    /\ cfg0.Duration = 0

\* C2: with Traces = N > 0, Duration = 0 and Workers = W (W >= 0 workers are
\* spawned, none when W < 0), when Run has returned it returned success,
\* every worker emitted exactly N traces, W * N traces were emitted in all
\* and each trace has exactly 3 spans, 1 root and 2 children.
C2_CountModeTotal ==
    (cfg0.Traces > 0 /\ cfg0.Duration = 0 /\ pc = "returned") =>
        /\ ret = "nil"
        /\ Len(workers) = Max(cfg0.Workers, 0)
        /\ \A k \in Spawned : accepted[workers[k].id] = cfg0.Traces
        /\ \A k \in Spawned : inflight[workers[k].id] = <<>>
        /\ TotalAccepted = Max(cfg0.Workers, 0) * cfg0.Traces
        /\ \A t \in traces : ThreeSpans(t)

C2_Witness ==
    /\ pc = "returned"
    /\ ret = "nil"
    /\ cfg0.Duration = 0
    /\ cfg0.Workers = MaxWorkers
    /\ cfg0.Traces = MaxTraces
    /\ TotalAccepted = MaxWorkers * MaxTraces

\* C3: once Run has returned success every spawned worker has terminated:
\* none is looping or in the middle of a trace, in either mode.
C3_NoWorkerOutlivesRun ==
    (pc = "returned" /\ ret = "nil") =>
        /\ Len(workers) = Max(cfg.Workers, 0)
        /\ \A k \in Spawned : /\ workers[k].pc = "done"
                               /\ inflight[workers[k].id] = <<>>

C3_Witness ==
    /\ pc = "returned"
    /\ ret = "nil"
    /\ cfg.Duration > 0
    /\ Len(workers) = MaxWorkers
    /\ \A k \in Spawned : accepted[workers[k].id] > 0

\* C4: in duration mode the stop flag changes only in the coordinator's store
\* step, once, from 1 to 0, and only after the sleep has lasted Duration;
\* the flag is never 0 before Duration has elapsed since the sleep began.
C4_SingleLateStore ==
    /\ [](cfg0.Duration > 0 =>
            /\ stores <= 1
            /\ running = 0 <=> stores = 1
            /\ running = 0 => timer >= cfg0.Duration
            /\ pc = "returned" => stores = 1)
    /\ [][(cfg0.Duration > 0 /\ running' # running) =>
            /\ pc = "store"
            /\ pc' = "wait"
            /\ workers' = workers
            /\ running = 1
            /\ running' = 0
            /\ timer >= cfg0.Duration]_vars

C4_Witness ==
    /\ running = 0
    /\ stores = 1
    /\ cfg0.Duration = MaxDuration
    /\ timer = MaxDuration
    /\ \E k \in Spawned : workers[k].pc = "lead"

\* C5: from every call with a valid configuration (Duration > 0 or
\* Traces > 0), under fair scheduling, Run eventually returns success.
C5_RunTerminates ==
    (pc = "call" /\ (cfg.Duration > 0 \/ cfg.Traces > 0))
        ~> (pc = "returned" /\ ret = "nil")

C5_Witness ==
    /\ pc = "returned"
    /\ ret = "nil"
    /\ cfg0.Duration > 0
    /\ cfg0.Traces > 0
    /\ cfg0.Workers = MaxWorkers
    /\ wg = 0

\* the step of an iteration that follows position p
AfterStep(p) ==
    CASE p = "lead" -> "sub1"
      [] p = "sub1" -> "sub2"
      [] p = "sub2" -> "pause"
      [] OTHER -> p

InTrace(w) == w.pc \in {"lead", "sub1", "sub2"}

\* C6: in duration mode, after the coordinator has written running = 0, a
\* worker that evaluates its loop condition exits without starting a trace,
\* while a worker in the middle of an iteration goes on with it: its trace of
\* 3 spans is accepted by the tracer and no worker exits with a trace open.
C6_StopAtNextCheck ==
    /\ [](cfg0.Duration > 0 =>
            \A k \in Spawned :
                /\ workers[k].pc = "done" =>
                       running = 0 /\ inflight[workers[k].id] = <<>>
                /\ workers[k].pc = "sub2" =>
                       Len(inflight[workers[k].id]) = 3)
    /\ [][(cfg0.Duration > 0 /\ running = 0) =>
            \A k \in Spawned :
                LET w == workers[k]
                    v == workers'[k]
                IN  /\ (w.pc = "check" /\ v.pc # "check") =>
                           /\ v.pc = "done"
                           /\ inflight' = inflight
                           /\ accepted' = accepted
                           /\ traces' = traces
                    /\ (InTrace(w) /\ v.pc # w.pc) => v.pc = AfterStep(w.pc)
                    /\ (w.pc = "sub2" /\ v.pc # w.pc) =>
                           /\ inflight[Slot(w)] \in traces'
                           /\ ThreeSpans(inflight[Slot(w)])
                           /\ accepted'[w.id] = NextCount(accepted[w.id], w)]_vars

C6_Witness ==
    /\ cfg0.Duration > 0
    /\ running = 0
    /\ Len(workers) = 2
    /\ workers[1].pc = "done"
    /\ workers[2].pc = "sub2"

\* C7: whenever Duration > 0, whatever Traces is, Run does not fail, Traces
\* becomes 0 and every worker is bound to traces = 0; whenever Duration <= 0
\* and Traces > 0, every worker is bound to traces = Traces, left unchanged.
\* Every worker sees exactly one of duration > 0 and traces > 0.
C7_ModeNormalization ==
    pc # "call" =>
        /\ cfg0.Duration > 0 =>
               /\ ret # "error"
               /\ cfg.Traces = 0
               /\ \A k \in Spawned : workers[k].traces = 0
        /\ (cfg0.Duration <= 0 /\ cfg0.Traces > 0) =>
               /\ ret # "error"
               /\ cfg.Traces = cfg0.Traces
               /\ \A k \in Spawned : workers[k].traces = cfg0.Traces
        /\ \A k \in Spawned :
               /\ workers[k].duration = cfg0.Duration
               /\ (workers[k].duration > 0) # (workers[k].traces > 0)

C7_Witness ==
    /\ cfg0.Duration > 0
    /\ cfg0.Traces = MaxTraces
    /\ cfg.Traces = 0
    /\ Len(workers) = MaxWorkers
    /\ \A k \in Spawned : workers[k].traces = 0 /\ workers[k].pc = "pause"

\* C8: in count mode (Duration <= 0, Traces > 0) the stop flag is 1 in every
\* state: the coordinator neither sleeps nor stores, and a worker exits only
\* after its planned number of iterations.
C8_CountModeFlagTrue ==
    (cfg0.Duration <= 0 /\ cfg0.Traces > 0) =>
        /\ running = 1
        /\ stores = 0
        /\ timer = -1
        /\ pc \notin {"sleeping", "store"}
        /\ \A k \in Spawned :
               workers[k].pc = "done" =>
                   /\ workers[k].n = cfg0.Traces
                   /\ accepted[workers[k].id] = cfg0.Traces

C8_Witness ==
    /\ cfg0.Duration = -1
    /\ cfg0.Traces = MaxTraces
    /\ pc = "wait"
    /\ running = 1
    /\ Len(workers) = MaxWorkers
    /\ workers[1].pc = "done"
    /\ workers[2].pc = "ready"

\* C9 as stated: in duration mode every worker that has left its loop ran
\* for at least Duration since it started executing.
C9_EveryWorkerRunsDuration ==
    cfg0.Duration > 0 =>
        \A k \in Spawned :
            workers[k].pc = "done" => workers[k].age >= cfg0.Duration

\* C9 amended: in duration mode no worker leaves its loop before Duration
\* has elapsed since the coordinator's sleep began, and every worker that
\* started executing before the sleep began ran for at least Duration.
C9_EarlyWorkerRunsDuration ==
    cfg0.Duration > 0 =>
        \A k \in Spawned :
            workers[k].pc = "done" =>
                /\ timer >= cfg0.Duration
                /\ workers[k].early => workers[k].age >= cfg0.Duration

C9_Witness ==
    /\ cfg0.Duration = MaxDuration
    /\ Len(workers) = 2
    /\ workers[1].pc = "done" /\ workers[1].early
    /\ workers[1].age = MaxDuration
    /\ workers[2].pc = "done" /\ ~workers[2].early
    /\ workers[2].age = 0

\* the three spans of every trace of a run with the given flags
LeadSpan(d, f) ==
    [name |-> "lead", parent |-> "none", debug |-> d, firehose |-> f]
Sub1Span(d, f) ==
    [name |-> "sub1", parent |-> "lead", debug |-> d, firehose |-> f]
Sub2Span(d, f) ==
    [name |-> "sub2", parent |-> "lead", debug |-> d, firehose |-> f]

\* C10: every trace accepted by the tracer, in either mode, has exactly one
\* root span "lead" and exactly two children "sub1" and "sub2" of that root,
\* and all three spans carry the Debug and Firehose values of the configuration.
C10_TraceShape ==
    \A t \in traces :
        LET named(nm) == {j \in 1..Len(t) : t[j].name = nm} IN
        /\ Len(t) = 3
        /\ Cardinality(named("lead")) = 1
        /\ Cardinality(named("sub1")) = 1
        /\ Cardinality(named("sub2")) = 1
        /\ \A j \in 1..Len(t) :
               /\ t[j].debug = cfg0.Debug
               /\ t[j].firehose = cfg0.Firehose
               /\ t[j].name = "lead" => t[j].parent = "none"
               /\ t[j].name \in {"sub1", "sub2"} => t[j].parent = "lead"

C10_Witness ==
    /\ traces = {<<LeadSpan(TRUE, FALSE), Sub1Span(TRUE, FALSE),
                   Sub2Span(TRUE, FALSE)>>}
    /\ cfg0.Debug /\ ~cfg0.Firehose
    /\ \A k \in WorkerIds : accepted[k] > 0

\* the coordinator is past the spawn loop and has not failed
PastSpawnLoop ==
    \/ pc \in {"sleeping", "store", "wait"}
    \/ pc = "returned" /\ ret = "nil"

\* C11: after a successful validation Run spawns exactly Workers workers
\* (none when Workers <= 0), with the distinct identities 0 .. Workers-1, all
\* bound to the tracer passed to Run and to the running flag and the
\* WaitGroup of this call.
C11_WorkersSpawned ==
    /\ Len(workers) <= Max(cfg.Workers, 0)
    /\ PastSpawnLoop => Len(workers) = Max(cfg.Workers, 0)
    /\ \A k \in Spawned :
           /\ workers[k].id = k - 1
           /\ workers[k].logger = workers[k].id
           /\ workers[k].tracer = TracerArg
           /\ workers[k].running = AddrRunning(ThisRun)
           /\ workers[k].wg = AddrWg(ThisRun)
    /\ \A j, k \in Spawned : j # k => workers[j].id # workers[k].id

C11_Witness ==
    /\ pc = "wait"
    /\ cfg.Workers = MaxWorkers
    /\ Len(workers) = MaxWorkers
    /\ {workers[k].id : k \in Spawned} = WorkerIds

\* the coordinator has begun to sleep or to wait, or has written the flag
Blocking ==
    \/ pc \in {"sleeping", "store", "wait"}
    \/ timer >= 0
    \/ stores > 0

\* C12: the coordinator begins its sleep and its final wait only after all
\* the spawn steps (go statements) of the loop have been performed, and no
\* worker is spawned once the sleep has begun or the flag has been written.
C12_SpawnBeforeBlocking ==
    /\ [](Blocking => /\ Len(workers) = Max(cfg.Workers, 0)
                       /\ i >= cfg.Workers)
    /\ [][Blocking => Len(workers') = Len(workers)]_vars

C12_Witness ==
    /\ pc = "sleeping"
    /\ timer > 0
    /\ Len(workers) = MaxWorkers
    /\ \A k \in Spawned : workers[k].pc = "ready"

\* the names of the spans of t, in the order in which they were started
SpanNames(t) == [j \in 1..Len(t) |-> t[j].name]

IsPrefix(a, b) ==
    /\ Len(a) <= Len(b)
    /\ \A j \in 1..Len(a) : a[j] = b[j]

\* C13: within one worker a root span is started only when the previous
\* root span has been closed; in a trace the root is started first, then the
\* children "sub1" and "sub2" are started and closed, and the root is closed
\* only after both.  Workers are not ordered with respect to each other.
C13_SequentialIterations ==
    /\ [](\A k \in Spawned :
            LET w == workers[k]
                t == inflight[Slot(w)]
            IN  /\ IsPrefix(SpanNames(t), <<"lead", "sub1", "sub2">>)
                /\ InTrace(w) <=> t # <<>>
                /\ \A j \in 2..Len(t) : t[j].parent = t[1].name)
    /\ [][\A k \in Spawned :
            LET s == workers[k].id
                t == inflight[s]
                u == inflight'[s]
            IN  /\ (u # t /\ Len(u) = 1) =>
                       /\ t = <<>>
                       /\ workers[k].pc = "check"
                       /\ u[1].name = "lead"
                /\ (u # t /\ Len(u) > 1) =>
                       /\ t # <<>>
                       /\ u = Append(t, u[Len(u)])
                /\ (u # t /\ u = <<>>) =>
                       /\ SpanNames(t) = <<"lead", "sub1", "sub2">>
                       /\ t \in traces'
                       /\ workers'[k].pc = "pause"]_vars

C13_Witness ==
    /\ Len(workers) = 2
    /\ workers[1].pc = "sub1" /\ workers[1].n = 1
    /\ workers[2].pc = "sub2" /\ workers[2].n = 0
    /\ SpanNames(inflight[0]) = <<"lead", "sub1">>
    /\ SpanNames(inflight[1]) = <<"lead", "sub1", "sub2">>

\* C14: with several workers reading the flag while the coordinator writes
\* it, the flag only holds 1 (true) or 0 (false), is 0 from the write on and
\* never goes back from 0 to 1, and every worker that reads it after the
\* write sees 0: it leaves its loop without starting a trace.
C14_StopSignalNotLost ==
    /\ [](/\ running \in {0, 1}
          /\ stores > 0 => running = 0)
    /\ [][/\ running = 0 => running' = 0
          /\ stores > 0 =>
                \A k \in Spawned :
                    (/\ workers[k].traces = 0
                     /\ workers[k].pc = "check"
                     /\ workers'[k].pc # "check") =>
                        /\ workers'[k].pc = "done"
                        /\ inflight' = inflight]_vars

C14_Witness ==
    /\ stores = 1
    /\ running = 0
    /\ Len(workers) = MaxWorkers
    /\ workers[1].pc = "check" /\ workers[1].n > 0
    /\ workers[MaxWorkers].pc = "done" /\ workers[MaxWorkers].n > 0

\* the workers spawned by one call of Run
WorkersOf(r) == {k \in Spawned : workers[k].run = r}

\* the workers of one call that have not reported completion
PendingOf(r) == Cardinality({k \in WorkersOf(r) : workers[k].pc # "done"})

\* C15: the flag and the worker group belong to one call of Run. With two
\* calls running concurrently on separate configurations, each worker reads
\* the flag of the call that spawned it; a flag is cleared only by the stop
\* write of its own call, which leaves the other call's flag and workers as
\* they are; a duration-mode worker ends only after the stop write of its
\* own call; each counter counts the workers of its own call only; and a
\* call returns success only when its own workers have finished, and can
\* return as soon as they have, whatever the other call's workers do.
C15_InvocationsIndependent ==
    /\ [](/\ \A k \in WorkersOf(ThisRun) :
               /\ workers[k].traces = 0 => (LoopCond(workers[k]) <=> running = 1)
               /\ (workers[k].traces = 0 /\ workers[k].pc = "done")
                      => stores = 1 /\ timer >= cfg.Duration
          /\ \A k \in WorkersOf(PeerRun) :
               /\ workers[k].traces = 0
                      => (LoopCond(workers[k]) <=> peer.running = 1)
               /\ (workers[k].traces = 0 /\ workers[k].pc = "done")
                      => peer.stores = 1 /\ peer.timer >= peer.cfg.Duration
          /\ running = 0 => stores = 1
          /\ peer.running = 0 => peer.stores = 1
          /\ wg = PendingOf(ThisRun) + (IF pc = "go" THEN 1 ELSE 0)
          /\ peer.wg = PendingOf(PeerRun) + (IF peer.pc = "go" THEN 1 ELSE 0)
          /\ (pc = "returned" /\ ret = "nil") => PendingOf(ThisRun) = 0
          /\ (peer.pc = "returned" /\ peer.ret = "nil") => PendingOf(PeerRun) = 0
          /\ (pc = "wait" /\ PendingOf(ThisRun) = 0) => ENABLED Wait
          /\ (peer.pc = "wait" /\ PendingOf(PeerRun) = 0) => ENABLED PeerWait)
    /\ [][/\ (peer.pc = "store" /\ peer'.pc = "wait") =>
               /\ running' = running
               /\ wg' = wg
               /\ workers' = workers
          /\ (pc = "store" /\ pc' = "wait") =>
               /\ peer'.running = peer.running
               /\ peer'.wg = peer.wg
               /\ workers' = workers]_vars

\* the second call has stopped its workers and returned while a worker of
\* the first call is in the middle of a trace, its flag still set
C15_Witness ==
    /\ peer.pc = "returned"
    /\ peer.ret = "nil"
    /\ peer.stores = 1
    /\ peer.running = 0
    /\ cfg.Traces = 0
    /\ pc = "sleeping"
    /\ running = 1
    /\ \E k \in WorkersOf(ThisRun) : workers[k].pc = "sub1"
    /\ \E k \in WorkersOf(PeerRun) : workers[k].pc = "done"

\* C16: Run changes no field of the configuration but Traces, and Traces
\* only when Duration > 0, to 0; when Duration <= 0 (count mode and the
\* error path) the configuration stays as it was when Run was called.
C16_OnlyTracesNormalized ==
    /\ \A f \in (DOMAIN cfg0) \ {"Traces"} : cfg[f] = cfg0[f]
    /\ DOMAIN cfg = DOMAIN cfg0
    /\ cfg.Traces = IF cfg0.Duration > 0 /\ pc # "call"
                      THEN 0 ELSE cfg0.Traces
    /\ cfg0.Duration <= 0 => cfg = cfg0

C16_Witness ==
    /\ pc = "returned"
    /\ ret = "nil"
    /\ cfg0.Duration > 0
    /\ cfg0.Traces = -1
    /\ cfg = [cfg0 EXCEPT !.Traces = 0]

\* a call with a valid stop policy and no worker to spawn
NoWorkerCall ==
    /\ cfg0.Workers <= 0
    /\ cfg0.Duration > 0 \/ cfg0.Traces > 0

\* C17: when Workers <= 0 and the stop policy is valid, Run spawns no worker
\* and no trace is emitted; the final wait finds the counter at 0 and does not
\* block; Run returns success, in count mode without sleeping or writing the
\* flag, in duration mode only after it has slept Duration and written it.
C17_NoWorkersStillSucceeds ==
    /\ [](NoWorkerCall =>
            /\ workers = <<>>
            /\ wg = 0
            /\ NothingEmitted
            /\ ret # "error"
            /\ pc = "wait" => ENABLED Wait
            /\ cfg0.Duration <= 0 =>
                   /\ pc \in {"call", "loop", "wait", "returned"}
                   /\ timer = -1 /\ stores = 0 /\ running = 1
            /\ (cfg0.Duration > 0 /\ pc = "returned") =>
                   /\ timer >= cfg0.Duration
                   /\ stores = 1 /\ running = 0)
    /\ (NoWorkerCall /\ pc = "call") ~> (pc = "returned" /\ ret = "nil")

C17_Witness ==
    /\ cfg0.Workers = -1
    /\ cfg0.Duration = MaxDuration
    /\ pc = "returned"
    /\ ret = "nil"
    /\ workers = <<>>
    /\ timer = MaxDuration

\* number of spawned workers that have not signalled completion
Pending == Cardinality({k \in Spawned : workers[k].pc # "done"})

\* C18 as stated: in every state the counter is non-negative and equal to
\* the number of workers spawned so far that have not signalled completion.
C18_CounterEqualsPending ==
    /\ wg >= 0
    /\ wg = Pending

\* C18 amended: the counter is non-negative and never below the number of
\* spawned workers that have not signalled completion; it is equal to that
\* number except between wg.Add(1) and the go statement that follows, where
\* it is one more.  Hence Run returns only when no spawned worker is running.
C18_CounterCoversPending ==
    /\ wg >= 0
    /\ wg = Pending + (IF pc = "go" THEN 1 ELSE 0)
    /\ (pc = "returned" /\ ret = "nil") => Pending = 0

C18_Witness ==
    /\ pc = "go"
    /\ cfg.Workers = 2
    /\ Len(workers) = 1
    /\ workers[1].pc = "done"
    /\ wg = 1
    /\ Pending = 0

====
